---- MODULE Spec2Model ----
(***************************************************************************)
(* Conway's Game of Life (augustawind/conway): the Game of src/game.rs     *)
(* over the Grid of src/grid.rs.  A Cell(x, y) is the pair <<x, y>>, a     *)
(* Grid's `cells: HashSet<Cell>` is a set of pairs.                        *)
(***************************************************************************)
EXTENDS Integers, FiniteSets, Sequences, TLC

(***************************************************************************)
(* Bounds of the model.                                                    *)
(***************************************************************************)
\* initial live cells are drawn from the box 0..MaxCoord x 0..MaxCoord
MaxCoord == 2
\* at most MaxLive cells are alive in the grid handed to Game::new
MaxLive == 3
\* requested opts.min_width / opts.min_height range over 0..MaxMin
MaxMin == 3
\* requested opts.width / opts.height range over 0..MaxFixed (0 = natural)
MaxFixed == 2
\* set_alive / set_dead are called with the cells (i, -i), i in 0..MaxCell
MaxCell == 2
\* a pattern text handed to from_config has at most MaxText characters
MaxText == 4
\* a string handed to Cell::from_str has at most MaxStr characters
MaxStr == 5
\* the initial cells of the game that is scrolled back lie in the columns 0..MaxColumn
MaxColumn == 1
\* split_int is tried on the integers -MaxSplit..MaxSplit
MaxSplit == 64
\* |scroll.x| + |scroll.y| never exceeds MaxScroll
MaxScroll == 1
\* a tick is taken only while the population stays within Margin of the box
Margin == 2

VARIABLES
    grid,      \* Game.grid.cells : the current generation
    swap,      \* Game.swap.cells : the scratch grid
    opts,      \* Game.opts : [min_width, min_height, width, height, view]
    viewport,  \* Game.viewport : [origin, scroll, width, height]
    start,     \* history: the live cells Game::new was called with
    before,    \* history: Game.grid.cells before the last operation
    last_op,   \* history: the operation last called ("new", "tick", "scroll", ...)
    request,   \* history: the GameConfig / GridConfig the constructor was given
    input,     \* history: the argument of the last call of a function under test
    ret,       \* history: what the last operation returned, [kind |-> ..., ...]
    prev       \* history: the Grid-level call before the last one

vars == <<grid, swap, opts, viewport, start, before, last_op, request, input, ret, prev>>

\* the operation returned nothing / no call was made yet
Unit == [kind |-> "unit"]

NoInput == <<>>

NoCall == [op |-> "none"]

Box == (0..MaxCoord) \X (0..MaxCoord)

\* the initial live sets the model enumerates
Patterns == {s \in SUBSET Box : Cardinality(s) <= MaxLive}

\* the part of the lattice a generation may occupy in the model
Lattice == ((0 - Margin)..(MaxCoord + Margin)) \X ((0 - Margin)..(MaxCoord + Margin))

\* the lattice with one more ring of cells: every active cell lies in it
Universe ==
    ((0 - Margin - 1)..(MaxCoord + Margin + 1)) \X ((0 - Margin - 1)..(MaxCoord + Margin + 1))

Abs(n) == IF n < 0 THEN 0 - n ELSE n

Max(a, b) == IF a >= b THEN a ELSE b

(***************************************************************************)
(* Cell arithmetic (grid.rs, impl ops::Add / ops::Sub for Cell).           *)
(***************************************************************************)
CellAdd(a, b) == <<a[1] + b[1], a[2] + b[2]>>

CellSub(a, b) == <<a[1] - b[1], a[2] - b[2]>>

(***************************************************************************)
(* Grid: cells.                                                            *)
(***************************************************************************)
is_empty(cells) == cells = {}

is_alive(cells, cell) == cell \in cells

set_alive(cells, cell) == cells \cup {cell}

\* the mutant: the result of HashSet::insert is inverted
set_alive_returns_present(cells, cell) == cell \in cells

\* what set_alive returns: HashSet::insert is true iff the value was not present
set_alive_returns(cells, cell) == cell \notin cells

\* the mutant: every cell is removed
set_dead_all(cells, cell) == {}

set_dead(cells, cell) == cells \ {cell}

\* the mutant: the result of HashSet::remove is inverted
set_dead_returns_absent(cells, cell) == cell \notin cells

\* what set_dead returns: HashSet::remove is true iff the value was present
set_dead_returns(cells, cell) == cell \in cells

\* the mutant: clear leaves the cells where they are
clear_keeps(cells) == cells

\* Grid::clear
clear(cells) == {}

\* the mutant: the centre cell is not skipped
adjacent_cells_with_self(cell) ==
    {<<cell[1] + dx, cell[2] + dy>> : dx \in -1..1, dy \in -1..1}

\* all 8 cells directly adjacent to the given cell
adjacent_cells(cell) ==
    {<<cell[1] + d[1], cell[2] + d[2]>> :
        d \in {e \in (-1..1) \X (-1..1) : ~(e[1] = 0 /\ e[2] = 0)}}

live_neighbors(cells, cell) ==
    Cardinality({c \in adjacent_cells(cell) : is_alive(cells, c)})

\* the mutant: only the live cells themselves are evaluated
active_cells_live_only(cells) == cells

\* every live cell together with its 8 neighbours
active_cells(cells) ==
    UNION {adjacent_cells(cell) \cup {cell} : cell \in cells}

(***************************************************************************)
(* Grid: geometry.  calculate_bounds scans the cells in the iteration      *)
(* order of the HashSet; the scan is modelled over a sequence.             *)
(***************************************************************************)
RECURSIVE SomeOrder(_)
SomeOrder(cells) ==
    IF cells = {} THEN <<>>
    ELSE LET c == CHOOSE c \in cells : TRUE
         IN <<c>> \o SomeOrder(cells \ {c})

\* the mutant: one if / else-if chain over both axes
RECURSIVE bounds_scan_chained(_, _, _)
bounds_scan_chained(order, i, acc) ==
    IF i > Len(order) THEN acc
    ELSE LET x == order[i][1]
             y == order[i][2]
             xhit == x < acc[1][1] \/ x > acc[2][1]
             x0 == IF x < acc[1][1] THEN x ELSE acc[1][1]
             x1 == IF x < acc[1][1] THEN acc[2][1]
                   ELSE IF x > acc[2][1] THEN x ELSE acc[2][1]
             y0 == IF ~xhit /\ y < acc[1][2] THEN y ELSE acc[1][2]
             y1 == IF ~xhit /\ ~(y < acc[1][2]) /\ y > acc[2][2] THEN y
                   ELSE acc[2][2]
         IN bounds_scan_chained(order, i + 1, <<(<<x0, y0>>), (<<x1, y1>>)>>)

RECURSIVE bounds_scan(_, _, _)
bounds_scan(order, i, acc) ==
    IF i > Len(order) THEN acc
    ELSE LET x == order[i][1]
             y == order[i][2]
             x0 == IF x < acc[1][1] THEN x ELSE acc[1][1]
             x1 == IF x < acc[1][1] THEN acc[2][1]
                   ELSE IF x > acc[2][1] THEN x ELSE acc[2][1]
             y0 == IF y < acc[1][2] THEN y ELSE acc[1][2]
             y1 == IF y < acc[1][2] THEN acc[2][2]
                   ELSE IF y > acc[2][2] THEN y ELSE acc[2][2]
         IN bounds_scan(order, i + 1, <<(<<x0, y0>>), (<<x1, y1>>)>>)

calculate_bounds_of(order) ==
    IF Len(order) = 0 THEN <<(<<0, 0>>), (<<0, 0>>)>>
    ELSE bounds_scan(order, 2, <<order[1], order[1]>>)

calculate_bounds(cells) == calculate_bounds_of(SomeOrder(cells))

\* (x1 - x0 + 1, y1 - y0 + 1) of the bounds
natural_size(cells) ==
    LET b == calculate_bounds(cells)
    IN <<b[2][1] - b[1][1] + 1, b[2][2] - b[1][2] + 1>>

(***************************************************************************)
(* Game (game.rs).                                                         *)
(***************************************************************************)
Views == {"Centered", "Fixed"}

\* n.div_rem(&two) of num_integer on a signed integer truncates toward zero
div_rem_2(n) ==
    LET q == IF n >= 0 THEN n \div 2 ELSE 0 - ((0 - n) \div 2)
    IN <<q, n - 2 * q>>

\* the mutant: the remainder goes to the first half
split_int_low(n) ==
    LET qr == div_rem_2(n)
    IN <<qr[1] + qr[2], qr[1]>>

split_int(n) ==
    LET qr == div_rem_2(n)
    IN <<qr[1], qr[1] + qr[2]>>

\* the mutant: a dead cell with 2 live neighbours is born too
survives_b23(cells, cell) ==
    live_neighbors(cells, cell) \in {2, 3}

\* whether the cell survives an application of the rules to `cells`
survives(cells, cell) ==
    LET n == live_neighbors(cells, cell)
    IN IF is_alive(cells, cell) THEN n \in {2, 3} ELSE n = 3

\* the mutant: the test of emptiness is negated
is_over_negated(cells) == ~is_empty(cells)

\* Game::is_over
is_over_of(cells) == is_empty(cells)

is_over == is_over_of(grid)

\* the loop of Game::tick: for cell in active_cells { if survives { swap.set_alive } }
RECURSIVE tick_loop(_, _, _)
tick_loop(cells, todo, scratch) ==
    IF todo = {} THEN scratch
    ELSE LET cell == CHOOSE c \in todo : TRUE
         IN tick_loop(cells, todo \ {cell},
                      IF survives(cells, cell) THEN set_alive(scratch, cell)
                      ELSE scratch)

\* the mutant: the grid is not cleared before the swap
tick_no_clear(cells, scratch) ==
    LET filled == tick_loop(cells, active_cells(cells), scratch)
    IN [grid |-> filled, swap |-> cells]

\* Game::tick on (grid, swap): the pair after the loop, the clear and the mem::swap
tick(cells, scratch) ==
    LET filled == tick_loop(cells, active_cells(cells), scratch)
        cleared == clear(cells)
    IN [grid |-> filled, swap |-> cleared]

\* the mutant: the requested minimum is kept whatever the natural size
new_opts_as_requested(cells, req) == req

\* Game::new: the options and the viewport it stores for the given grid and request
new_opts(cells, req) ==
    LET size == natural_size(cells)
    IN [min_width |-> Max(req.min_width, size[1]),
        min_height |-> Max(req.min_height, size[2]),
        width |-> req.width,
        height |-> req.height,
        view |-> req.view,
        char_alive |-> req.char_alive,
        char_dead |-> req.char_dead]

new_viewport(cells, req) ==
    LET b == calculate_bounds(cells)
        size == natural_size(cells)
    IN [origin |-> b[1],
        width |-> IF req.width = 0 THEN size[1] ELSE req.width,
        height |-> IF req.height = 0 THEN size[2] ELSE req.height,
        scroll |-> <<0, 0>>]

\* the mutant: the origin follows the bounds of the given cells
viewport_fixed_tracking(cells, vp) ==
    LET o == CellAdd(calculate_bounds(cells)[1], vp.scroll)
    IN <<o, (<<o[1] + vp.width, o[2] + vp.height>>)>>

\* Game::viewport_fixed
viewport_fixed(cells, vp) ==
    LET o == CellAdd(vp.origin, vp.scroll)
    IN <<o, (<<o[1] + vp.width, o[2] + vp.height>>)>>

(***************************************************************************)
(* Game::viewport_centered.  `self.opts.min_width - width` subtracts two   *)
(* u64: when width > min_width a build with overflow checks panics, a      *)
(* build without them wraps to 2^64 - (width - min_width), which           *)
(* cmp::max(0, _) keeps and `as i64` reads as min_width - width < 0.       *)
(***************************************************************************)
Panicked == [panicked |-> TRUE, rect |-> <<(<<0, 0>>), (<<0, 0>>)>>]

viewport_centered(cells, o, overflow_checks) ==
    LET b == calculate_bounds(cells)
        width == b[2][1] - b[1][1] + 1
        height == b[2][2] - b[1][2] + 1
        underflow == width > o.min_width \/ height > o.min_height
        dx == o.min_width - width
        dy == o.min_height - height
        sx == split_int(dx)
        sy == split_int(dy)
    IN IF underflow /\ overflow_checks THEN Panicked
       ELSE [panicked |-> FALSE,
             rect |-> <<(<<b[1][1] - sx[1], b[1][2] - sy[1]>>),
                        (<<b[2][1] + sx[2], b[2][2] + sy[2]>>)>>]

\* what viewport_centered can do in the builds of the program
viewport_centered_outcomes(cells, o) ==
    {viewport_centered(cells, o, oc) : oc \in BOOLEAN}

\* the mutant: the offset is added, as Grid::scroll does
scroll_adding(vp, dx, dy) ==
    [vp EXCEPT !.scroll = CellAdd(vp.scroll, <<dx, dy>>)]

\* Game::scroll
scroll(vp, dx, dy) ==
    [vp EXCEPT !.scroll = CellSub(vp.scroll, <<dx, dy>>)]

(***************************************************************************)
(* The state machine.                                                      *)
(***************************************************************************)
\* the options a caller asks for: the sizes of the chosen view, the rest 0
Requests ==
    {[min_width |-> mw, min_height |-> mh, width |-> 0, height |-> 0,
      view |-> "Centered", char_alive |-> "x", char_dead |-> "."] :
        mw \in 0..MaxMin, mh \in 0..MaxMin}
    \cup
    {[min_width |-> 0, min_height |-> 0, width |-> w, height |-> h,
      view |-> "Fixed", char_alive |-> "x", char_dead |-> "."] :
        w \in 0..MaxFixed, h \in 0..MaxFixed}

\* Game::new(grid, opts): the state of the Game it returns
GameNew(cells, req) ==
    /\ grid = cells
    /\ swap = clear(cells)
    /\ opts = new_opts(cells, req)
    /\ viewport = new_viewport(cells, req)
    /\ start = cells
    /\ before = cells
    /\ last_op = "new"
    /\ request = req
    /\ input = NoInput
    /\ ret = Unit
    /\ prev = NoCall

\* Game::new(grid, opts)
Init ==
    \E cells \in Patterns, req \in Requests :
        GameNew(cells, req)

\* the mutant: a tick moves the viewport's origin to the new generation's bounds
TickReanchoring ==
    LET t == tick(grid, swap)
    IN /\ t.grid \subseteq Lattice
       /\ grid' = t.grid
       /\ swap' = t.swap
       /\ viewport' = [viewport EXCEPT !.origin = calculate_bounds(t.grid)[1]]
       /\ before' = grid
       /\ last_op' = "tick"
       /\ ret' = Unit
       /\ UNCHANGED <<opts, start, request, input, prev>>

\* Game::tick
Tick ==
    LET t == tick(grid, swap)
    IN /\ t.grid \subseteq Lattice
       /\ grid' = t.grid
       /\ swap' = t.swap
       /\ before' = grid
       /\ last_op' = "tick"
       /\ ret' = Unit
       /\ UNCHANGED <<opts, viewport, start, request, input, prev>>

\* Game::scroll(dx, dy)
Scroll ==
    \E dx \in -1..1, dy \in -1..1 :
        LET vp == scroll(viewport, dx, dy)
        IN /\ Abs(vp.scroll[1]) + Abs(vp.scroll[2]) <= MaxScroll
           /\ viewport' = vp
           /\ before' = grid
           /\ last_op' = "scroll"
           /\ ret' = Unit
           /\ UNCHANGED <<grid, swap, opts, start, request, input, prev>>

Next == Tick \/ Scroll

Spec == Init /\ [][Next]_vars

\* the options of a caller that sets none: config.rs gives view "centered" and
\* 0 for every size
DefaultRequest ==
    [min_width |-> 0, min_height |-> 0, width |-> 0, height |-> 0,
     view |-> "Centered", char_alive |-> "x", char_dead |-> "."]

\* Game::new(grid, opts) with the default options
InitLife ==
    \E cells \in Patterns :
        GameNew(cells, DefaultRequest)

NextLife == Tick

\* the generations of a Game with the default options, never scrolled
SpecLife == InitLife /\ [][NextLife]_vars

\* Game::new(grid, opts) in Fixed mode
InitFixed ==
    \E cells \in Patterns, req \in {r \in Requests : r.view = "Fixed"} :
        GameNew(cells, req)

\* a Game in Fixed mode, ticked and scrolled
SpecFixed == InitFixed /\ [][Next]_vars

TypeOK ==
    /\ grid \subseteq Lattice
    /\ swap \subseteq Lattice
    /\ opts.view \in Views
    /\ last_op \in {"new", "tick", "scroll", "draw", "next"}

(***************************************************************************)
(* Functions of the Grid called on their own.  The Game part of the state  *)
(* is that of an empty Game and stays as it is.                            *)
(***************************************************************************)
\* a Grid with the given live cells on which `op` is about to be called with `x`
GridCall(cells, op, x) ==
    /\ grid = cells
    /\ swap = {}
    /\ opts = new_opts({}, DefaultRequest)
    /\ viewport = new_viewport({}, DefaultRequest)
    /\ start = cells
    /\ before = cells
    /\ last_op = op
    /\ request = DefaultRequest
    /\ input = x
    /\ ret = Unit
    /\ prev = NoCall

Range(f) == {f[i] : i \in DOMAIN f}

\* the orders in which a HashSet holding `cells` may be iterated
Orderings(cells) ==
    {f \in [1..Cardinality(cells) -> cells] : Range(f) = cells}

\* the cells calculate_bounds is tried on: the box moved one step below zero
BoundsBox == ((0 - 1)..(MaxCoord - 1)) \X ((0 - 1)..(MaxCoord - 1))

\* the live cells of test_calculate_bounds_1
BoundsExample == {<<2, 1>>, <<-3, 0>>, <<-2, 1>>, <<-2, 0>>}

BoundsInputs ==
    UNION {Orderings(s) :
        s \in {t \in SUBSET BoundsBox : Cardinality(t) <= MaxLive} \cup {BoundsExample}}

\* a Grid whose cells are iterated in the order `input`
InitBounds ==
    \E order \in BoundsInputs : GridCall(Range(order), "iter", order)

\* Grid::calculate_bounds
CalculateBounds ==
    /\ last_op = "iter"
    /\ last_op' = "calculate_bounds"
    /\ ret' = [kind |-> "bounds", val |-> calculate_bounds_of(input)]
    /\ UNCHANGED <<grid, swap, opts, viewport, start, before, request, input, prev>>

NextBounds == CalculateBounds

SpecBounds == InitBounds /\ [][NextBounds]_vars

\* the cells set_alive and set_dead are called with
CellBox == {<<i, 0 - i>> : i \in 0..MaxCell}

\* Grid::new(cells, Default::default())
InitCells ==
    \E cells \in SUBSET CellBox : GridCall(cells, "new", NoInput)

\* the call that is now the last one, as the next state remembers it
ThisCall == [op |-> last_op, input |-> input, ret |-> ret, before |-> before]

\* Grid::set_alive(cell)
SetAlive ==
    \E cell \in CellBox :
        /\ grid' = set_alive(grid, cell)
        /\ ret' = [kind |-> "bool", val |-> set_alive_returns(grid, cell)]
        /\ input' = cell
        /\ before' = grid
        /\ last_op' = "set_alive"
        /\ prev' = ThisCall
        /\ UNCHANGED <<swap, opts, viewport, start, request>>

\* Grid::set_dead(&cell)
SetDead ==
    \E cell \in CellBox :
        /\ grid' = set_dead(grid, cell)
        /\ ret' = [kind |-> "bool", val |-> set_dead_returns(grid, cell)]
        /\ input' = cell
        /\ before' = grid
        /\ last_op' = "set_dead"
        /\ prev' = ThisCall
        /\ UNCHANGED <<swap, opts, viewport, start, request>>

NextCells == SetAlive \/ SetDead

SpecCells == InitCells /\ [][NextCells]_vars

(***************************************************************************)
(* The constructors called on their arguments.                             *)
(***************************************************************************)
\* Grid::new: the options and the viewport the Grid stores
grid_new_opts(cells, req) ==
    LET size == natural_size(cells)
    IN [req EXCEPT !.min_width = Max(req.min_width, size[1]),
                   !.min_height = Max(req.min_height, size[2])]

grid_new_viewport(cells, req) ==
    LET b == calculate_bounds(cells)
        size == natural_size(cells)
    IN [origin |-> b[1],
        width |-> IF req.width = 0 THEN size[1] ELSE req.width,
        height |-> IF req.height = 0 THEN size[2] ELSE req.height,
        scroll |-> <<0, 0>>]

\* the arguments a constructor is about to be called with: `start` the cells,
\* `request` the options
InitNew ==
    \E cells \in Patterns, req \in Requests :
        /\ grid = {}
        /\ swap = {}
        /\ opts = new_opts({}, DefaultRequest)
        /\ viewport = new_viewport({}, DefaultRequest)
        /\ start = cells
        /\ before = {}
        /\ last_op = "args"
        /\ request = req
        /\ input = NoInput
        /\ ret = Unit
        /\ prev = NoCall

\* Game::new(Grid::new(start, ..), request)
ConstructGame ==
    /\ last_op = "args"
    /\ grid' = start
    /\ swap' = clear(start)
    /\ opts' = new_opts(start, request)
    /\ viewport' = new_viewport(start, request)
    /\ before' = start
    /\ last_op' = "new"
    /\ UNCHANGED <<start, request, input, ret, prev>>

\* Grid::new(start, request)
ConstructGrid ==
    /\ last_op = "args"
    /\ grid' = start
    /\ opts' = grid_new_opts(start, request)
    /\ viewport' = grid_new_viewport(start, request)
    /\ before' = start
    /\ last_op' = "grid_new"
    /\ UNCHANGED <<swap, start, request, input, ret, prev>>

NextNew == ConstructGame \/ ConstructGrid

SpecNew == InitNew /\ [][NextNew]_vars

(***************************************************************************)
(* Grid::from_config.  A text is a sequence of one-character strings.      *)
(***************************************************************************)
NL == "\n"

\* char::is_whitespace, for the characters of the model
is_whitespace(ch) == ch \in {" ", NL}

\* str::trim: leading and trailing whitespace removed
RECURSIVE trim_start(_)
trim_start(text) ==
    IF Len(text) > 0 /\ is_whitespace(Head(text)) THEN trim_start(Tail(text))
    ELSE text

RECURSIVE trim_end(_)
trim_end(text) ==
    IF Len(text) > 0 /\ is_whitespace(text[Len(text)])
    THEN trim_end(SubSeq(text, 1, Len(text) - 1))
    ELSE text

trim(text) == trim_end(trim_start(text))

\* str::lines: the text split at newlines, a final empty line left out
RECURSIVE lines_from(_, _)
lines_from(text, line) ==
    IF Len(text) = 0 THEN (IF Len(line) = 0 THEN <<>> ELSE <<line>>)
    ELSE IF Head(text) = NL THEN <<line>> \o lines_from(Tail(text), <<>>)
    ELSE lines_from(Tail(text), Append(line, Head(text)))

lines(text) == lines_from(text, <<>>)

starts_with(line, ch) == Len(line) > 0 /\ line[1] = ch

\* .filter(|line| !line.starts_with('#'))
RECURSIVE filter_comments(_)
filter_comments(lns) ==
    IF Len(lns) = 0 THEN <<>>
    ELSE IF starts_with(Head(lns), "#") THEN filter_comments(Tail(lns))
    ELSE <<Head(lns)>> \o filter_comments(Tail(lns))

\* the mutant: a character that is no glyph is taken for a dead cell
RECURSIVE scan_line_lenient(_, _, _, _, _)
scan_line_lenient(line, x, y, config, cells) ==
    IF x >= Len(line) THEN [kind |-> "Ok", cells |-> cells]
    ELSE LET ch == line[x + 1]
         IN IF ch = config.char_alive
            THEN scan_line_lenient(line, x + 1, y, config, cells \cup {<<x, y>>})
            ELSE scan_line_lenient(line, x + 1, y, config, cells)

\* for (x, ch) in line.chars().enumerate() { ... }: the cells pushed so far, or
\* the error returned
RECURSIVE scan_line(_, _, _, _, _)
scan_line(line, x, y, config, cells) ==
    IF x >= Len(line) THEN [kind |-> "Ok", cells |-> cells]
    ELSE LET ch == line[x + 1]
         IN IF ch = config.char_alive
            THEN scan_line(line, x + 1, y, config, cells \cup {<<x, y>>})
            ELSE IF ch # config.char_dead THEN [kind |-> "Err", ch |-> ch]
            ELSE scan_line(line, x + 1, y, config, cells)

\* for (y, line) in ... .enumerate() { ... }
RECURSIVE scan_lines(_, _, _, _)
scan_lines(lns, y, config, cells) ==
    IF y >= Len(lns) THEN [kind |-> "Ok", cells |-> cells]
    ELSE LET r == scan_line(lns[y + 1], 0, y, config, cells)
         IN IF r.kind = "Err" THEN r
            ELSE scan_lines(lns, y + 1, config, r.cells)

\* the mutant: the pattern is read without trimming it
from_config_untrimmed(pattern, config) ==
    scan_lines(filter_comments(lines(pattern)), 0, config, {})

\* Grid::from_config: Ok(the live cells of Grid::new(cells, config)) or Err
from_config(pattern, config) ==
    scan_lines(filter_comments(lines(trim(pattern))), 0, config, {})

\* the characters of the patterns tried: the default glyphs, a newline, the
\* comment marker, a letter and a space
Chars == {"x", ".", NL, "#", "a", " "}

Texts == UNION {[1..n -> Chars] : n \in 0..MaxText}

\* the glyphs tried: the defaults (config.rs) and the defaults exchanged
GlyphConfigs ==
    {[DefaultRequest EXCEPT !.char_alive = g[1], !.char_dead = g[2]] :
        g \in {<<"x", ".">>, <<".", "x">>}}

\* a GridConfig whose pattern is `input`
InitParse ==
    \E pattern \in Texts, config \in GlyphConfigs :
        /\ grid = {} /\ swap = {} /\ start = {} /\ before = {}
        /\ opts = new_opts({}, DefaultRequest)
        /\ viewport = new_viewport({}, DefaultRequest)
        /\ last_op = "pattern"
        /\ request = config
        /\ input = pattern
        /\ ret = Unit
        /\ prev = NoCall

\* Grid::from_config(config)
FromConfig ==
    /\ last_op = "pattern"
    /\ ret' = from_config(input, request)
    /\ grid' = IF ret'.kind = "Ok" THEN ret'.cells ELSE grid
    /\ last_op' = "from_config"
    /\ UNCHANGED <<swap, opts, viewport, start, before, request, input, prev>>

NextParse == FromConfig

SpecParse == InitParse /\ [][NextParse]_vars

(***************************************************************************)
(* Game::draw and GameIter::next.                                          *)
(***************************************************************************)
\* Game::viewport: the rectangle of the configured view, or the panic of
\* viewport_centered
viewport_of(cells, o, vp, overflow_checks) ==
    IF o.view = "Fixed"
    THEN [panicked |-> FALSE, rect |-> viewport_fixed(cells, vp)]
    ELSE viewport_centered(cells, o, overflow_checks)

\* for x in x0..=x1 { output.push(glyph) }; output.push('\n')
draw_row(cells, o, x0, x1, y) ==
    [i \in 1..(x1 - x0 + 1) |->
        IF is_alive(cells, <<x0 + i - 1, y>>) THEN o.char_alive ELSE o.char_dead]
    \o <<NL>>

\* for y in y0..=y1 { ... }
RECURSIVE draw_rows(_, _, _, _)
draw_rows(cells, o, rect, y) ==
    IF y > rect[2][2] THEN <<>>
    ELSE draw_row(cells, o, rect[1][1], rect[2][1], y)
            \o draw_rows(cells, o, rect, y + 1)

\* the mutant: the last column of the rectangle is left out (x0..x1)
draw_viewport_exclusive(cells, o, rect) ==
    draw_rows(cells, o, <<rect[1], (<<rect[2][1] - 1, rect[2][2]>>)>>, rect[1][2])

\* Game::draw_viewport
draw_viewport(cells, o, rect) == draw_rows(cells, o, rect, rect[1][2])

Panic == [kind |-> "panic"]

\* Game::draw in a build with or without overflow checks
draw(cells, o, vp, overflow_checks) ==
    LET v == viewport_of(cells, o, vp, overflow_checks)
    IN IF v.panicked THEN Panic
       ELSE [kind |-> "frame", text |-> draw_viewport(cells, o, v.rect)]

\* the Centered requests that ask for a square minimum size
DrawRequests ==
    {r \in Requests : r.view = "Centered" /\ r.min_width = r.min_height}

\* Game::new(grid, opts) in Centered mode
InitDraw ==
    \E cells \in Patterns, req \in DrawRequests :
        GameNew(cells, req)

\* Game::draw()
Draw ==
    \E overflow_checks \in BOOLEAN :
        /\ ret' = draw(grid, opts, viewport, overflow_checks)
        /\ before' = grid
        /\ last_op' = "draw"
        /\ UNCHANGED <<grid, swap, opts, viewport, start, request, input, prev>>

NextDraw == Tick \/ Draw

SpecDraw == InitDraw /\ [][NextDraw]_vars

\* GameIter::next: the grids it leaves and what it returns
next(cells, scratch, o, vp, overflow_checks) ==
    IF is_over_of(cells)
    THEN [grid |-> cells, swap |-> scratch, ret |-> [kind |-> "None"]]
    ELSE LET t == tick(cells, scratch)
             d == draw(t.grid, o, vp, overflow_checks)
         IN [grid |-> t.grid, swap |-> t.swap,
             ret |-> IF d = Panic THEN Panic
                     ELSE [kind |-> "Some", text |-> d.text]]

\* GameIter::next(); a panic ends the thread that iterates
IterNext ==
    \E overflow_checks \in BOOLEAN :
        LET n == next(grid, swap, opts, viewport, overflow_checks)
        IN /\ ret # Panic
           /\ n.grid \subseteq Lattice
           /\ grid' = n.grid
           /\ swap' = n.swap
           /\ ret' = n.ret
           /\ before' = grid
           /\ last_op' = "next"
           /\ prev' = [op |-> last_op, ret |-> ret]
           /\ UNCHANGED <<opts, viewport, start, request, input>>

NextIter == IterNext

\* game.iter() on a Game with the default options
SpecIter == InitLife /\ [][NextIter]_vars

(***************************************************************************)
(* Cell::from_str, in cell.rs (which trims) and in grid.rs (which does     *)
(* not).                                                                   *)
(***************************************************************************)
\* str::split(','): the parts between the commas, empty parts kept
RECURSIVE split_from(_, _)
split_from(text, part) ==
    IF Len(text) = 0 THEN <<part>>
    ELSE IF Head(text) = "," THEN <<part>> \o split_from(Tail(text), <<>>)
    ELSE split_from(Tail(text), Append(part, Head(text)))

split(text) == split_from(text, <<>>)

Digits == <<"0", "1", "2", "3", "4", "5", "6", "7", "8", "9">>

digit_value(ch) == (CHOOSE d \in 1..10 : Digits[d] = ch) - 1

RECURSIVE digits_value(_, _)
digits_value(text, acc) ==
    IF Len(text) = 0 THEN acc
    ELSE digits_value(Tail(text), 10 * acc + digit_value(Head(text)))

\* str::parse::<i64>: an optional sign, then one digit or more
parse(text) ==
    LET signed == Len(text) > 0 /\ text[1] \in {"-", "+"}
        body == IF signed THEN Tail(text) ELSE text
    IN IF Len(body) = 0 \/ \E i \in 1..Len(body) : body[i] \notin Range(Digits)
       THEN [kind |-> "Err"]
       ELSE [kind |-> "Ok",
             val |-> IF signed /\ text[1] = "-"
                     THEN 0 - digits_value(body, 0)
                     ELSE digits_value(body, 0)]

\* the body of both from_str: `trims` tells the cell.rs copy from the grid.rs
\* copy.  split_at(1) panics on an empty string; rest.len() - 1 is a usize
\* below zero when rest is empty, which panics in the subtraction or, where
\* that wraps, in split_at
from_str_of(s, trims) ==
    LET t == IF trims THEN trim(s) ELSE s
    IN IF Len(t) < 1 THEN Panic
       ELSE IF t[1] # "(" THEN [kind |-> "Err"]
       ELSE LET rest0 == Tail(t)
            IN IF Len(rest0) = 0 THEN Panic
               ELSE IF rest0[Len(rest0)] # ")" THEN [kind |-> "Err"]
               ELSE LET nums == split(SubSeq(rest0, 1, Len(rest0) - 1))
                        x == parse(IF trims THEN trim(nums[1]) ELSE nums[1])
                        y == parse(IF trims THEN trim(nums[2]) ELSE nums[2])
                    IN IF x.kind = "Err" THEN [kind |-> "Err"]
                       ELSE IF Len(nums) < 2 THEN [kind |-> "Err"]
                       ELSE IF y.kind = "Err" THEN [kind |-> "Err"]
                       ELSE [kind |-> "Ok", cell |-> <<x.val, y.val>>]

\* <Cell as FromStr>::from_str of cell.rs
from_str(s) == from_str_of(s, TRUE)

\* <Cell as FromStr>::from_str of grid.rs
grid_from_str(s) == from_str_of(s, FALSE)

\* the characters of the strings tried
StrChars == {"(", ")", ",", "1", "-", " "}

Strs == UNION {[1..n -> StrChars] : n \in 0..MaxStr}

\* a string about to be parsed
InitStr ==
    \E s \in Strs : GridCall({}, "str", s)

\* s.parse::<Cell>() with the Cell of cell.rs
CellFromStr ==
    /\ last_op = "str"
    /\ ret' = from_str(input)
    /\ last_op' = "cell.rs from_str"
    /\ UNCHANGED <<grid, swap, opts, viewport, start, before, request, input, prev>>

\* s.parse::<Cell>() with the Cell of grid.rs
GridCellFromStr ==
    /\ last_op = "str"
    /\ ret' = grid_from_str(input)
    /\ last_op' = "grid.rs from_str"
    /\ UNCHANGED <<grid, swap, opts, viewport, start, before, request, input, prev>>

NextStr == CellFromStr \/ GridCellFromStr

SpecStr == InitStr /\ [][NextStr]_vars

\* a Game in Fixed mode that is ticked, scrolled and drawn
NextFrame == Tick \/ Scroll \/ Draw

SpecFrame == InitFixed /\ [][NextFrame]_vars

(***************************************************************************)
(* Game::scroll called with an offset and, later, with the opposite        *)
(* offset; `prev` remembers the first call and the Fixed rectangle before  *)
(* it.                                                                     *)
(***************************************************************************)
\* the requests tried: the default options in Centered and in Fixed mode
ScrollRequests ==
    {[DefaultRequest EXCEPT !.view = v] : v \in {"Centered", "Fixed"}}

\* the initial live sets tried
ScrollPatterns == {s \in Patterns : \A c \in s : c[1] <= MaxColumn}

InitScroll ==
    \E cells \in ScrollPatterns, req \in ScrollRequests :
        GameNew(cells, req)

\* Game::scroll(dx, dy), no earlier scroll waiting to be undone
ScrollAway ==
    \E dx \in -1..1, dy \in -1..1 :
        LET vp == scroll(viewport, dx, dy)
        IN /\ IF prev.op = "none" THEN TRUE ELSE prev.back
           /\ <<dx, dy>> # <<0, 0>>
           /\ Abs(vp.scroll[1]) + Abs(vp.scroll[2]) <= MaxScroll
           /\ viewport' = vp
           /\ before' = grid
           /\ last_op' = "scroll"
           /\ input' = <<dx, dy>>
           /\ ret' = Unit
           /\ prev' = [op |-> "scroll", dx |-> dx, dy |-> dy, back |-> FALSE,
                       rect |-> viewport_fixed(grid, viewport)]
           /\ UNCHANGED <<grid, swap, opts, start, request>>

\* Game::scroll(-dx, -dy) for the (dx, dy) of the scroll remembered
ScrollBack ==
    /\ prev.op = "scroll" /\ ~prev.back
    /\ viewport' = scroll(viewport, 0 - prev.dx, 0 - prev.dy)
    /\ before' = grid
    /\ last_op' = "scroll"
    /\ input' = <<0 - prev.dx, 0 - prev.dy>>
    /\ ret' = Unit
    /\ prev' = [prev EXCEPT !.back = TRUE]
    /\ UNCHANGED <<grid, swap, opts, start, request>>

NextScroll == Tick \/ ScrollAway \/ ScrollBack

SpecScroll == InitScroll /\ [][NextScroll]_vars

(***************************************************************************)
(* split_int called on its own.                                            *)
(***************************************************************************)
\* an integer about to be split
InitSplit ==
    \E n \in (0 - MaxSplit)..MaxSplit : GridCall({}, "n", n)

\* split_int(n)
SplitInt ==
    /\ last_op = "n"
    /\ ret' = [kind |-> "pair", val |-> split_int(input)]
    /\ last_op' = "split_int"
    /\ UNCHANGED <<grid, swap, opts, viewport, start, before, request, input, prev>>

NextSplit == SplitInt

SpecSplit == InitSplit /\ [][NextSplit]_vars

(***************************************************************************)
(* Properties.                                                             *)
(***************************************************************************)
\* the live Moore neighbours of c, counted from the live set and never c itself
MooreCount(cells, c) ==
    Cardinality({d \in cells :
        d # c /\ Abs(d[1] - c[1]) <= 1 /\ Abs(d[2] - c[2]) <= 1})

\* the rule of Life for c in the generation `cells`
Rule(cells, c) ==
    \/ c \in cells /\ MooreCount(cells, c) \in {2, 3}
    \/ c \notin cells /\ MooreCount(cells, c) = 3

InRect(c, rect) ==
    /\ rect[1][1] <= c[1] /\ c[1] <= rect[2][1]
    /\ rect[1][2] <= c[2] /\ c[2] <= rect[2][2]

\* C1: after every tick the live set is exactly the set of all coordinates of
\* the lattice that survive in the generation before the tick: the rule over
\* active_cells() gives what the rule over every coordinate gives, and each
\* decision reads the old generation only.
C1_TickIsRuleOverUniverse ==
    last_op = "tick" =>
        grid = {c \in Universe : survives(before, c)}

\* C1 witness: a tick in which a cell died, a cell was born and a cell stayed
C1_Witness ==
    /\ last_op = "tick"
    /\ before \ grid # {}
    /\ grid \ before # {}
    /\ grid \cap before # {}

C3_OverIsTerminal ==
    [][is_over =>
        /\ is_over'
        /\ grid' = {} /\ swap' = {} /\ swap' = swap
        /\ opts' = opts
        /\ (last_op' = "tick" => viewport' = viewport)]_vars

\* C3 witness: a tick was taken on a game that was already over, after the
\* population of a non-empty start died out
C3_Witness ==
    /\ start # {}
    /\ last_op = "tick"
    /\ before = {}
    /\ is_over

\* C4: is_over() is true iff no cell of the lattice is alive in the current
\* grid, in every state; a Game built from zero live cells is over before any
\* tick.
C4_OverIffNoLiveCell ==
    /\ is_over <=> (\A c \in Universe : ~is_alive(grid, c))
    /\ (last_op = "new" /\ start = {}) => is_over

\* C4 witness: a Game just built from zero live cells
C4_Witness ==
    /\ last_op = "new"
    /\ start = {}
    /\ is_over

Blinker == {<<1, 0>>, <<1, 1>>, <<1, 2>>}

\* C5: on the blinker {(1,0),(1,1),(1,2)} survives is true of (1,1), (0,1) and
\* (2,1) and false of (1,0) and (1,2), and one tick gives exactly
\* {(0,1),(1,1),(2,1)}.
C5_Blinker ==
    /\ grid = Blinker =>
        /\ survives(grid, <<1, 1>>)
        /\ survives(grid, <<0, 1>>)
        /\ survives(grid, <<2, 1>>)
        /\ ~survives(grid, <<1, 0>>)
        /\ ~survives(grid, <<1, 2>>)
    /\ (before = Blinker /\ last_op = "tick") =>
        grid = {<<0, 1>>, <<1, 1>>, <<2, 1>>}

\* C5 witness: the first tick of a Game built from the blinker
C5_Witness ==
    /\ start = Blinker
    /\ before = Blinker
    /\ last_op = "tick"

\* floor and ceiling of n / 2 for n >= 0
FloorHalf(n) == n \div 2

CeilHalf(n) == (n + 1) \div 2

\* C6: in Centered mode the rectangle viewport_centered() returns contains
\* every live cell of the current grid, in every state.
C6_CenteredContainsLiveCells ==
    opts.view = "Centered" =>
        \A r \in viewport_centered_outcomes(grid, opts) :
            /\ ~r.panicked
            /\ \A c \in grid : InRect(c, r.rect)

\* C7: in Centered mode, on an axis whose natural size is at least the stored
\* minimum, viewport_centered() returns the near and far coordinates of
\* calculate_bounds(), and min - natural never underflows or fails.
C7_NoExpansionAtOrAboveMinimum ==
    opts.view = "Centered" =>
        \A r \in viewport_centered_outcomes(grid, opts) :
            LET b == calculate_bounds(grid)
                size == natural_size(grid)
            IN /\ ~r.panicked
               /\ size[1] >= opts.min_width =>
                    r.rect[1][1] = b[1][1] /\ r.rect[2][1] = b[2][1]
               /\ size[2] >= opts.min_height =>
                    r.rect[1][2] = b[1][2] /\ r.rect[2][2] = b[2][2]

MinCorner(cells) ==
    IF cells = {} THEN <<0, 0>>
    ELSE <<CHOOSE x \in {c[1] : c \in cells} : \A c \in cells : x <= c[1],
           CHOOSE y \in {c[2] : c \in cells} : \A c \in cells : y <= c[2]>>

\* the size of the tight bounding box of the live cells, (1, 1) for an empty grid
BoxSize(cells) ==
    IF cells = {} THEN <<1, 1>>
    ELSE <<(CHOOSE x \in {c[1] : c \in cells} : \A c \in cells : x >= c[1])
                - MinCorner(cells)[1] + 1,
           (CHOOSE y \in {c[2] : c \in cells} : \A c \in cells : y >= c[2])
                - MinCorner(cells)[2] + 1>>

\* the rectangle of Fixed mode anchored at the minimum corner of `cells`
FixedRectAt(cells) ==
    LET o == CellAdd(MinCorner(cells), viewport.scroll)
        w == IF opts.width = 0 THEN BoxSize(start)[1] ELSE opts.width
        h == IF opts.height = 0 THEN BoxSize(start)[2] ELSE opts.height
    IN <<o, (<<o[1] + w, o[2] + h>>)>>

\* C9 as stated: in Fixed mode the origin is the minimum corner of the current
\* grid's live cells plus the scroll offset, and far_corner = origin + (width,
\* height), in every state.
C9_OriginFollowsCurrentGrid ==
    opts.view = "Fixed" =>
        viewport_fixed(grid, viewport) = FixedRectAt(grid)

\* C9 as amended: in Fixed mode the origin is the minimum corner of the live
\* cells the Game was constructed with plus the scroll offset, and far_corner =
\* origin + (width, height), the width and height being the configured ones or,
\* when configured as 0, the natural size at construction.
C9_OriginIsStartCornerPlusScroll ==
    opts.view = "Fixed" =>
        viewport_fixed(grid, viewport) = FixedRectAt(start)

\* C9 witness: Fixed mode, scrolled, after a tick that moved the minimum corner
C9_Witness ==
    /\ opts.view = "Fixed"
    /\ last_op = "tick"
    /\ viewport.scroll # <<0, 0>>
    /\ grid # {}
    /\ MinCorner(grid) # MinCorner(start)

\* C10: in Fixed mode a tick leaves the rectangle of viewport_fixed() as it
\* was, whatever the population does.
C10_FixedRectUnchangedByTick ==
    [][(opts.view = "Fixed" /\ last_op' = "tick") =>
        viewport_fixed(grid', viewport') = viewport_fixed(grid, viewport)]_vars

\* C10 witness: Fixed mode after a tick that changed the bounding box of the
\* population
C10_Witness ==
    /\ opts.view = "Fixed"
    /\ last_op = "tick"
    /\ \/ MinCorner(grid) # MinCorner(before)
       \/ BoxSize(grid) # BoxSize(before)

\* the maximum corner of the tight bounding box of the live cells
MaxCorner(cells) ==
    <<CHOOSE x \in {c[1] : c \in cells} : \A c \in cells : x >= c[1],
      CHOOSE y \in {c[2] : c \in cells} : \A c \in cells : y >= c[2]>>

\* C11: calculate_bounds() on a non-empty grid returns ((min x, min y),
\* (max x, max y)) over all live cells, in whatever order the cells are
\* scanned; {(2,1),(-3,0),(-2,1),(-2,0)} gives ((-3,0),(2,1)).
C11_BoundsAreTightInAnyOrder ==
    (last_op = "calculate_bounds" /\ grid # {}) =>
        /\ ret.val = <<MinCorner(grid), MaxCorner(grid)>>
        /\ \A order \in Orderings(grid) : calculate_bounds_of(order) = ret.val
        /\ grid = BoundsExample => ret.val = <<(<<-3, 0>>), (<<2, 1>>)>>

\* C11 witness: the example scanned in an order whose first cell is on no
\* edge of the box
C11_Witness ==
    /\ last_op = "calculate_bounds"
    /\ grid = BoundsExample
    /\ input[1] = <<-2, 1>>
    /\ input[4] = <<-3, 0>>

\* C12: set_alive(c) makes c alive and returns true iff c was dead;
\* set_dead(c) makes c dead and returns true iff c was alive; a second
\* identical call returns false and leaves the live set as it is; no other
\* cell changes.
C12_SetAliveSetDead ==
    /\ last_op = "set_alive" =>
        /\ is_alive(grid, input)
        /\ ret.val = ~is_alive(before, input)
        /\ \A c \in CellBox \ {input} : is_alive(grid, c) = is_alive(before, c)
        /\ (prev.op = "set_alive" /\ prev.input = input) =>
                ret.val = FALSE /\ grid = before
    /\ last_op = "set_dead" =>
        /\ ~is_alive(grid, input)
        /\ ret.val = is_alive(before, input)
        /\ \A c \in CellBox \ {input} : is_alive(grid, c) = is_alive(before, c)
        /\ (prev.op = "set_dead" /\ prev.input = input) =>
                ret.val = FALSE /\ grid = before

\* C12 witness: set_alive called twice with a cell that was dead, other cells
\* being alive
C12_Witness ==
    /\ last_op = "set_alive"
    /\ prev.op = "set_alive"
    /\ prev.input = input
    /\ prev.ret.val = TRUE
    /\ grid # {input}

\* C13: for a cell c not alive in the grid, set_alive(c) followed by
\* set_dead(c) leaves c dead and the live set exactly as it was.
C13_SetAliveThenDeadRestores ==
    (/\ last_op = "set_dead"
     /\ prev.op = "set_alive"
     /\ prev.input = input
     /\ ~is_alive(prev.before, input)) =>
        /\ ~is_alive(grid, input)
        /\ grid = prev.before

\* C13 witness: the two calls made on a non-empty grid
C13_Witness ==
    /\ last_op = "set_dead"
    /\ prev.op = "set_alive"
    /\ prev.input = input
    /\ ~is_alive(prev.before, input)
    /\ prev.before # {}

\* C14: Game::new and Grid::new store min_width = max(requested min_width,
\* natural width of the initial cells) and the same for the height: a smaller
\* request is overridden by the natural size, a larger one is kept.
C14_MinSizeIsMaxOfRequestAndNatural ==
    last_op \in {"new", "grid_new"} =>
        LET size == BoxSize(start)
        IN /\ opts.min_width >= request.min_width
           /\ opts.min_width >= size[1]
           /\ opts.min_width \in {request.min_width, size[1]}
           /\ opts.min_height >= request.min_height
           /\ opts.min_height >= size[2]
           /\ opts.min_height \in {request.min_height, size[2]}

\* C14 witness: a Game built with a width request below the natural width and
\* a height request above the natural height
C14_Witness ==
    /\ last_op = "new"
    /\ request.min_width > 0
    /\ request.min_width < BoxSize(start)[1]
    /\ request.min_height > BoxSize(start)[2]


(***************************************************************************)
(* The reading of a pattern, stated without the parser: position by        *)
(* position of the text.                                                   *)
(***************************************************************************)
\* the first position of the line that position i of the text lies on
LineStart(text, i) ==
    CHOOSE j \in 1..i :
        /\ j = 1 \/ text[j - 1] = NL
        /\ \A k \in j..(i - 1) : text[k] # NL

\* position i lies on a line that begins with '#'
OnCommentLine(text, i) == text[LineStart(text, i)] = "#"

\* the number of lines before that of position i that do not begin with '#'
RowOf(text, i) ==
    Cardinality({j \in 1..(LineStart(text, i) - 1) :
                    /\ j = 1 \/ text[j - 1] = NL
                    /\ text[j] # "#"})

\* the positions holding a character of a line that is no comment
CellPositions(text) ==
    {i \in 1..Len(text) : text[i] # NL /\ ~OnCommentLine(text, i)}

\* every character of a line that is no comment is one of the two glyphs
OnlyGlyphs(text, config) ==
    \A i \in CellPositions(text) :
        text[i] \in {config.char_alive, config.char_dead}

\* (column, row) of every alive glyph
AliveGlyphs(text, config) ==
    {<<i - LineStart(text, i), RowOf(text, i)>> :
        i \in {k \in CellPositions(text) : text[k] = config.char_alive}}

\* the text without its leading and trailing whitespace
Trimmed(text) ==
    LET solid == {i \in 1..Len(text) : ~is_whitespace(text[i])}
    IN IF solid = {} THEN <<>>
       ELSE SubSeq(text, CHOOSE i \in solid : \A k \in solid : i <= k,
                         CHOOSE i \in solid : \A k \in solid : k <= i)

\* C15 as stated: a pattern of glyphs, newlines and comment lines is parsed
\* into exactly the cells (column, row) of its alive glyphs, column and row
\* counted in the pattern as given.
C15_CellsOfPatternAsGiven ==
    (last_op = "from_config" /\ OnlyGlyphs(input, request))
        => ret = [kind |-> "Ok", cells |-> AliveGlyphs(input, request)]

\* C15 amended: a pattern whose trimmed text holds only glyphs, newlines and
\* comment lines is parsed into exactly the cells (column, row) of the alive
\* glyphs of the trimmed text, rows counted over the lines that are no comment.
C15_CellsOfTrimmedPattern ==
    (last_op = "from_config" /\ OnlyGlyphs(Trimmed(input), request))
        => ret = [kind |-> "Ok", cells |-> AliveGlyphs(Trimmed(input), request)]

\* a pattern with whitespace around it and an alive glyph away from the
\* origin has been parsed
C15_Witness ==
    /\ last_op = "from_config"
    /\ OnlyGlyphs(Trimmed(input), request)
    /\ Trimmed(input) # input
    /\ ret.kind = "Ok"
    /\ \E c \in ret.cells : c[2] > 0 \/ c[1] > 0

\* C16 as stated: a character of the pattern as given that lies on a line that
\* is no comment and is neither glyph nor newline makes from_config an error.
C16_ForeignCharOfPatternAsGiven ==
    (last_op = "from_config" /\ ~OnlyGlyphs(input, request))
        => ret.kind = "Err"

\* C16 amended: a character of the trimmed pattern that lies on a line that is
\* no comment and is neither glyph nor newline makes from_config an error and
\* leaves no grid, wherever it stands and however many cells precede it.
C16_ForeignCharOfTrimmedPattern ==
    (last_op = "from_config" /\ ~OnlyGlyphs(Trimmed(input), request))
        => (ret.kind = "Err" /\ grid = {})

\* a foreign character after two alive glyphs has made from_config an error
C16_Witness ==
    /\ last_op = "from_config"
    /\ ret.kind = "Err"
    /\ \E i \in 3..Len(input) :
        /\ input[i] = ret.ch
        /\ input[i - 1] = request.char_alive
        /\ input[i - 2] = request.char_alive


\* the rectangle Game::draw renders when it returns
DrawnRect == viewport_of(grid, opts, viewport, FALSE).rect

C18_NextIsNoneOrTickAndFrame ==
    last_op = "next" =>
        /\ ret.kind = "None" <=> is_over_of(before)
        /\ is_over_of(before) => grid = before
        /\ ~is_over_of(before) =>
            /\ grid = tick(before, {}).grid
            /\ ret = [kind |-> "Some",
                      text |-> draw_viewport(grid, opts, DrawnRect)]
        /\ (prev.op = "next" /\ prev.ret.kind = "None") => ret.kind = "None"


\* C19 as stated: Cell::from_str never aborts: whatever the string, the empty
\* one included, it returns Ok(Cell) or a ParseCell error.
C19_FromStrReturnsOkOrErr ==
    last_op \in {"cell.rs from_str", "grid.rs from_str"}
        => ret.kind \in {"Ok", "Err"}


\* C20: the scratch grid is empty in every state between operations, right
\* after Game::new and after every tick, and it never holds the generation
\* that the current grid holds.
C20_ScratchEmptyBetweenOperations ==
    /\ swap = {}
    /\ grid # {} => swap # grid

\* a tick has turned one non-empty generation into a larger one
C20_Witness ==
    /\ last_op = "tick"
    /\ before # {}
    /\ Cardinality(grid) > Cardinality(before)
    /\ swap = {}


\* the coordinates within one step, in each axis, of some live cell
Nearby(cells) ==
    {c \in Universe :
        \E d \in cells : Abs(d[1] - c[1]) <= 1 /\ Abs(d[2] - c[2]) <= 1}

\* C21: active_cells() is exactly the union of every live cell with its 8
\* Moore neighbours, and every coordinate outside it is dead and has no live
\* neighbour; for the cells (0,0) and (1,1) it is the 14 cells of the test.
C21_ActiveCellsAreLiveCellsAndNeighbours ==
    /\ active_cells(grid) = Nearby(grid)
    /\ \A c \in Universe \ active_cells(grid) :
        /\ ~is_alive(grid, c)
        /\ live_neighbors(grid, c) = 0
        /\ MooreCount(grid, c) = 0
    /\ grid = {<<0, 0>>, <<1, 1>>} =>
        active_cells(grid) =
            {<<0, 0>>, <<-1, -1>>, <<0, -1>>, <<1, -1>>, <<1, 0>>, <<1, 1>>,
             <<0, 1>>, <<-1, 1>>, <<-1, 0>>, <<2, 0>>, <<2, 1>>, <<2, 2>>,
             <<1, 2>>, <<0, 2>>}

\* a generation after a tick whose live cells share neighbours, so that the
\* union is smaller than 9 cells per live cell, with coordinates left outside
C21_Witness ==
    /\ last_op = "tick"
    /\ Cardinality(grid) >= 2
    /\ Cardinality(active_cells(grid)) < 9 * Cardinality(grid)
    /\ Universe \ active_cells(grid) # {}


\* the text is `rows` lines of `cols` glyphs, each line ended by a newline
IsBlock(text, cols, rows) ==
    /\ Len(text) = rows * (cols + 1)
    /\ \A i \in 1..Len(text) : (text[i] = NL) <=> (i % (cols + 1) = 0)

\* C22 as stated: in Fixed mode with configured width W > 0 and height H > 0
\* the frame of draw() is exactly H newline-terminated rows of exactly W
\* glyphs, in every reachable state.
C22_FixedFrameIsHRowsOfWGlyphs ==
    (last_op = "draw" /\ opts.view = "Fixed" /\ opts.width > 0 /\ opts.height > 0)
        => /\ ret.kind = "frame"
           /\ IsBlock(ret.text, opts.width, opts.height)


\* the rectangle moved by the offset d
Translated(rect, d) == <<CellAdd(rect[1], d), CellAdd(rect[2], d)>>

\* C23: a scroll(dx, dy) leaves the live set, the scratch grid, the stored
\* options and what viewport_centered returns as they were; it moves the Fixed
\* rectangle by (-dx, -dy) without resizing it; and once scroll(-dx, -dy) has
\* followed scroll(dx, dy), with any ticks in between, the Fixed rectangle is
\* the one from before the first of the two calls.
C23_ScrollOnlyMovesFixedRect ==
    [][last_op' = "scroll" =>
        /\ grid' = grid /\ swap' = swap /\ opts' = opts
        /\ viewport_centered_outcomes(grid', opts')
                = viewport_centered_outcomes(grid, opts)
        /\ viewport'.origin = viewport.origin
        /\ viewport'.width = viewport.width
        /\ viewport'.height = viewport.height
        /\ viewport_fixed(grid', viewport')
                = Translated(viewport_fixed(grid, viewport),
                             <<0 - input'[1], 0 - input'[2]>>)
        /\ prev'.back => viewport_fixed(grid', viewport') = prev'.rect]_vars

\* a scroll has been undone by the opposite scroll after a tick that changed
\* the population in between
C23_Witness ==
    /\ last_op = "scroll"
    /\ prev.op = "scroll" /\ prev.back
    /\ grid # start
    /\ grid # {}
    /\ opts.view = "Fixed"


\* C24: for every n >= 0, split_int(n) = (a, b) with a = n div 2 and
\* b = n div 2 + n mod 2, so a + b = n and 0 <= b - a <= 1; 30 gives (15,15),
\* 31 gives (15,16), 0 gives (0,0) and 1 gives (0,1).
C24_SplitIntHalves ==
    (last_op = "split_int" /\ input >= 0) =>
        LET a == ret.val[1]
            b == ret.val[2]
        IN /\ a = input \div 2
           /\ b = (input \div 2) + (input % 2)
           /\ a + b = input
           /\ 0 <= b - a /\ b - a <= 1
           /\ input = 30 => ret.val = <<15, 15>>
           /\ input = 31 => ret.val = <<15, 16>>
           /\ input = 0 => ret.val = <<0, 0>>
           /\ input = 1 => ret.val = <<0, 1>>

\* split_int(31) has returned the uneven halves
C24_Witness ==
    /\ last_op = "split_int"
    /\ input = 31
    /\ ret.val[2] = ret.val[1] + 1

====
